---- MODULE Spec2Model ----
(***************************************************************************)
(* State-machine model of the assignment-portal backend (app/auth.py,      *)
(* app/dependencies.py, app/services/*.py, app/routes/*.py).               *)
(*                                                                         *)
(* The two MongoDB collections are sequences of documents in insertion     *)
(* (natural) order; find_one returns the first match.  Every endpoint is   *)
(* one action: the whole handler, its dependency chain included, runs      *)
(* without interleaving (sequential requests).  The document store is      *)
(* taken to be available: the PyMongoError branches are not modelled.      *)
(* Time is counted in minutes.                                             *)
(***************************************************************************)
EXTENDS Integers, Sequences, FiniteSets, TLC

VARIABLES
    users,        \* users_collection: sequence of user documents
    assignments,  \* assignments_collection: sequence of assignment documents
    nextOid,      \* the next ObjectId the store hands out
    now,          \* the clock, in minutes
    last,         \* the last request and its response, as the client sees it
    calls         \* the register calls in flight, each with its position

vars == <<users, assignments, nextOid, now, last, calls>>

---------------------------------------------------------------------------
(* Bounds of the model *)

MaxUsers == 2          \* documents in users_collection
MaxAssignments == 1    \* documents in assignments_collection
MaxTime == 60          \* the clock stops here

Usernames == {"alice", "bob"}
Passwords == {"pw1", "pw2"}
Tasks == {"t1"}
UserIds == {"u1"}
\* the clock advances in steps of half an hour
TickMinutes == {30}

---------------------------------------------------------------------------
(* Python / HTTP values *)

\* Python's None where a dict (document, payload) is expected
PyNone == [py_none |-> TRUE]
\* Python's None where a str is expected
NoneStr == "<None>"

HTTP_200_OK == 200
HTTP_400_BAD_REQUEST == 400
HTTP_401_UNAUTHORIZED == 401
HTTP_403_FORBIDDEN == 403
HTTP_404_NOT_FOUND == 404

\* `not x` for a dict-or-None value
Falsy(d) == d = PyNone \/ DOMAIN d = {}

\* dict.get(key, default)
Get(d, k, default) == IF k \in DOMAIN d THEN d[k] ELSE default

\* raise HTTPException(status_code, detail)
Raise(code, detail) == [ok |-> FALSE, status |-> code, detail |-> detail]
\* return value
Return(v) == [ok |-> TRUE, status |-> HTTP_200_OK, value |-> v]

---------------------------------------------------------------------------
(* bson.ObjectId and its 24-character hexadecimal string form *)

HexChars == <<"0", "1", "2", "3", "4", "5", "6", "7",
              "8", "9", "a", "b", "c", "d", "e", "f">>
OID_HEX_LEN == 24

HexCharSet == {HexChars[i] : i \in 1..16}
HexValTable == [c \in HexCharSet |-> (CHOOSE i \in 1..16 : HexChars[i] = c) - 1]
\* the value of one hexadecimal digit
HexVal(c) == HexValTable[c]

RECURSIVE HexOf(_, _)
\* n written with exactly len lower-case hexadecimal digits
HexOf(n, len) ==
    IF len = 0 THEN <<>>
    ELSE Append(HexOf(n \div 16, len - 1), HexChars[(n % 16) + 1])

\* the length get_assignments_for_admin passes to to_list
LIST_LENGTH == 100

\* the identifiers the store hands out in a run of the model
Oids == 0..(LIST_LENGTH + MaxUsers + MaxAssignments + 4)

\* str(ObjectId), tabulated over the identifiers of the model
OidStrTable == [n \in Oids |-> HexOf(n, OID_HEX_LEN)]
OidStr(oid) == OidStrTable[oid]

\* ObjectId.is_valid for a str
OidValid(s) ==
    /\ Len(s) = OID_HEX_LEN
    /\ \A i \in 1..Len(s) : s[i] \in HexCharSet

RECURSIVE HexParse(_, _)
\* the number the first n hexadecimal digits of s write
HexParse(s, n) ==
    IF n = 0 THEN 0
    ELSE 16 * HexParse(s, n - 1) + HexVal(s[n])

\* ObjectId(s): the identifier, defined when OidValid(s); otherwise the
\* constructor raises bson.errors.InvalidId
ObjectId(s) == HexParse(s, OID_HEX_LEN)

---------------------------------------------------------------------------
(* app/auth.py: password hashing (passlib bcrypt) *)

\* bcrypt of a password under a salt
Bcrypt(plain, salt) == [scheme |-> "bcrypt", salt |-> salt, digest |-> plain]

\* pwd_context.hash(password) under the salt it drew
get_password_hash(password, salt) == Bcrypt(password, salt)

\* mutant: verify that only recognises the hash scheme
verify_password_SchemeOnly(plain_password, hashed_password) ==
    hashed_password.scheme = "bcrypt"

\* pwd_context.verify re-hashes under the stored salt and compares
verify_password(plain_password, hashed_password) ==
    Bcrypt(plain_password, hashed_password.salt) = hashed_password

---------------------------------------------------------------------------
(* app/auth.py: JSON Web Tokens (PyJWT) *)

SECRET_KEY == "settings.secret_key"
OTHER_KEY == "some-other-key"
\* settings.access_token_expire_minutes, the default lifetime: the setting
\* itself lives in app.config; 30 stands for a positive number of minutes
ACCESS_TOKEN_EXPIRE_MINUTES == 30
\* timedelta(minutes=30), the lifetime both login flows pass
LOGIN_EXPIRE_MINUTES == 30

\* timedelta(minutes=m); `not timedelta(0)` is True in Python
timedelta(m) == [minutes |-> m]
TruthyDelta(d) == d # PyNone /\ d.minutes # 0

\* the HMAC signature of a payload under a key
Sign(payload, key) == [key |-> key, over |-> payload]

\* jwt.encode(payload, key, algorithm)
jwt_encode(payload, key) == [payload |-> payload, sig |-> Sign(payload, key)]

\* a string that is no JWT at all
GarbageToken == [garbage |-> TRUE]

\* jwt.decode(token, key, algorithms) at time t: the payload, or the
\* exception raised.  PyJWT verifies the signature first, then exp
\* (expired when exp <= now).
jwt_decode(token, key, t) ==
    IF "payload" \notin DOMAIN token
    THEN [ok |-> FALSE, error |-> "DecodeError"]
    ELSE IF token.sig # Sign(token.payload, key)
    THEN [ok |-> FALSE, error |-> "InvalidSignatureError"]
    ELSE IF "exp" \in DOMAIN token.payload /\ token.payload.exp <= t
    THEN [ok |-> FALSE, error |-> "ExpiredSignatureError"]
    ELSE [ok |-> TRUE, payload |-> token.payload]

\* dict.update({"exp": expire}) on a copy of data
WithExp(data, expire) ==
    [k \in DOMAIN data \cup {"exp"} |-> IF k = "exp" THEN expire ELSE data[k]]

\* create_access_token(data, expires_delta) called at time t
create_access_token(data, expires_delta, t) ==
    LET expire == t + (IF TruthyDelta(expires_delta)
                       THEN expires_delta.minutes
                       ELSE ACCESS_TOKEN_EXPIRE_MINUTES)
    IN jwt_encode(WithExp(data, expire), SECRET_KEY)

\* mutant: decode that verifies the signature and not the expiry
decode_access_token_NoExpiry(token, t) ==
    IF "payload" \in DOMAIN token /\ token.sig = Sign(token.payload, SECRET_KEY)
    THEN token.payload ELSE PyNone

\* decode_access_token(token) called at time t: the payload or None
decode_access_token(token, t) ==
    LET r == jwt_decode(token, SECRET_KEY, t)
    IN IF r.ok THEN r.payload ELSE PyNone

---------------------------------------------------------------------------
(* The document store (motor / MongoDB collections) *)

\* a document matches an equality query
Matches(doc, query) ==
    \A k \in DOMAIN query : k \in DOMAIN doc /\ doc[k] = query[k]

\* collection.find(query): the matching documents in natural order
find(coll, query) ==
    LET Test(d) == Matches(d, query) IN SelectSeq(coll, Test)

\* collection.find_one(query): the first matching document, or None
find_one(coll, query) ==
    LET hits == find(coll, query)
    IN IF hits = <<>> THEN PyNone ELSE Head(hits)

\* cursor.to_list(length=n): at most n documents
to_list(cursor, length) ==
    IF Len(cursor) <= length THEN cursor ELSE SubSeq(cursor, 1, length)

\* collection.insert_one(doc): the store adds the _id it generated
WithId(doc, oid) ==
    [k \in DOMAIN doc \cup {"_id"} |-> IF k = "_id" THEN oid ELSE doc[k]]
insert_one(coll, doc, oid) == Append(coll, WithId(doc, oid))

\* the position update_one acts on: the first match, 0 when there is none
FirstMatch(coll, query) ==
    IF \E i \in 1..Len(coll) : Matches(coll[i], query)
    THEN CHOOSE i \in 1..Len(coll) :
            /\ Matches(coll[i], query)
            /\ \A j \in 1..(i - 1) : ~Matches(coll[j], query)
    ELSE 0

\* result.matched_count of update_one
matched_count(coll, query) == IF FirstMatch(coll, query) = 0 THEN 0 ELSE 1

\* mutant: an update whose filter matches every document
update_one_All(coll, query, field, value) ==
    [i \in 1..Len(coll) |->
        [k \in DOMAIN coll[i] \cup {field} |->
            IF k = field THEN value ELSE coll[i][k]]]

\* collection.update_one(query, {"$set": {field: value}})
update_one(coll, query, field, value) ==
    LET i == FirstMatch(coll, query)
    IN IF i = 0 THEN coll
       ELSE [coll EXCEPT ![i] =
                [k \in DOMAIN coll[i] \cup {field} |->
                    IF k = field THEN value ELSE coll[i][k]]]

---------------------------------------------------------------------------
(* app/models/token.py *)

\* TokenData(username=...): keeps the username, None included
TokenData(username) == [username |-> username]

---------------------------------------------------------------------------
(* app/dependencies.py *)

\* get_current_user(token) at time t over the users collection
get_current_user(token, us, t) ==
    LET payload == decode_access_token(token, t)
        credentials_exception ==
            Raise(HTTP_401_UNAUTHORIZED, "Could not validate credentials")
    IN IF Falsy(payload) THEN credentials_exception
       ELSE LET username == Get(payload, "sub", NoneStr)
                token_data == TokenData(username)
                user == find_one(us, [username |-> token_data.username])
            IN IF Falsy(user) THEN credentials_exception
               ELSE Return(user)

\* mutant: the dependency without the is_active check
get_current_active_user_NoCheck(token, us, t) == get_current_user(token, us, t)

\* get_current_active_user(current_user), chained after get_current_user
get_current_active_user(token, us, t) ==
    LET cu == get_current_user(token, us, t)
    IN IF ~cu.ok THEN cu
       ELSE IF ~Get(cu.value, "is_active", TRUE)
       THEN Raise(HTTP_400_BAD_REQUEST, "Inactive user")
       ELSE cu

---------------------------------------------------------------------------
(* Requests and responses *)

\* bcrypt draws a random salt for every hash: a value no earlier hash used
FreshSalt == nextOid

\* the client's record of a request and of the response it got: req holds
\* the credentials of a register or login request (NoArgs for the other
\* requests), flow tells whether the service function behind the route was
\* entered
NoArgs == [none |-> TRUE]

Response(op, req, flow, r) ==
    [op |-> op, req |-> req, flow |-> flow, status |-> r.status,
     detail |-> IF r.ok THEN "" ELSE r.detail,
     body |-> IF r.ok THEN r.value ELSE PyNone]

\* a dependency raised: the route function is never called
Rejected(op, req, r) ==
    /\ last' = Response(op, req, FALSE, r)
    /\ UNCHANGED <<calls, users, assignments, nextOid, now>>

\* the service raised: nothing was written
Failed(op, req, r) ==
    /\ last' = Response(op, req, TRUE, r)
    /\ UNCHANGED <<calls, users, assignments, nextOid, now>>

---------------------------------------------------------------------------
(* app/services/user_service.py *)

\* mutant: register_user without the existence check
register_user_NoCheck(username, password) ==
    /\ users' = insert_one(users,
                    [username |-> username,
                     password |-> get_password_hash(password, FreshSalt),
                     role |-> "user"], nextOid)
    /\ nextOid' = nextOid + 1
    /\ last' = Response("register_user",
                        [username |-> username, password |-> password], TRUE,
                        Return([id |-> OidStr(nextOid),
                                message |-> "User registered successfully"]))
    /\ UNCHANGED <<calls, assignments, now>>

\* register_user(user)
register_user(username, password) ==
    LET req == [username |-> username, password |-> password]
        existing_user == find_one(users, [username |-> username])
        new_user == [username |-> username,
                     password |-> get_password_hash(password, FreshSalt),
                     role |-> "user"]
    IN IF ~Falsy(existing_user)
       THEN Failed("register_user", req,
                   Raise(HTTP_400_BAD_REQUEST, "Username already taken"))
       ELSE /\ users' = insert_one(users, new_user, nextOid)
            /\ nextOid' = nextOid + 1
            /\ last' = Response("register_user", req, TRUE,
                         Return([id |-> OidStr(nextOid),
                                 message |-> "User registered successfully"]))
            /\ UNCHANGED <<calls, assignments, now>>

\* the login response both login flows build
LoginBody(found, access_token) ==
    [id |-> OidStr(found._id), username |-> found.username,
     access_token |-> access_token, token_type |-> "bearer"]

\* login_user(user)
login_user(username, password) ==
    LET req == [username |-> username, password |-> password]
        found_user == find_one(users, [username |-> username])
    IN IF Falsy(found_user) \/ ~verify_password(password, found_user.password)
       THEN Failed("login_user", req,
                   Raise(HTTP_401_UNAUTHORIZED, "Invalid username or password"))
       ELSE LET access_token ==
                    create_access_token([sub |-> found_user.username],
                                        timedelta(LOGIN_EXPIRE_MINUTES), now)
            IN /\ last' = Response("login_user", req, TRUE,
                            Return(LoginBody(found_user, access_token)))
               /\ UNCHANGED <<calls, users, assignments, nextOid, now>>

\* mutant: upload_assignment that accepts any stored user as the admin
upload_assignment_AnyUser(userId, task, adminName, current_user) ==
    LET admin == find_one(users, [username |-> adminName])
    IN IF Falsy(admin)
       THEN Failed("upload_assignment", NoArgs,
                   Raise(HTTP_404_NOT_FOUND, "Admin not found."))
       ELSE /\ assignments' = insert_one(assignments,
                    [user_id |-> current_user._id, userId |-> userId,
                     task |-> task, admin_id |-> admin._id,
                     admin |-> adminName, status |-> "pending",
                     timestamp |-> now], nextOid)
            /\ nextOid' = nextOid + 1
            /\ last' = Response("upload_assignment", NoArgs, TRUE,
                         Return([id |-> OidStr(nextOid),
                                 message |-> "Assignment uploaded successfully"]))
            /\ UNCHANGED <<calls, users, now>>

\* upload_assignment(assignment, current_user)
upload_assignment(userId, task, adminName, current_user) ==
    LET req == NoArgs
        admin == find_one(users, [username |-> adminName])
    IN IF Falsy(admin) \/ ~(admin.role = "admin")
       THEN Failed("upload_assignment", req,
                   \* the detail names the admin: f"Admin '{assignment.admin}' not found."
                   Raise(HTTP_404_NOT_FOUND, "Admin not found."))
       ELSE LET new_assignment ==
                    [user_id |-> current_user._id,
                     userId |-> userId,
                     task |-> task,
                     admin_id |-> admin._id,
                     admin |-> adminName,
                     status |-> "pending",
                     timestamp |-> now]
            IN /\ assignments' = insert_one(assignments, new_assignment, nextOid)
               /\ nextOid' = nextOid + 1
               /\ last' = Response("upload_assignment", req, TRUE,
                            Return([id |-> OidStr(nextOid),
                                    message |-> "Assignment uploaded successfully"]))
               /\ UNCHANGED <<calls, users, now>>

\* one entry of the admin list
AdminEntry(admin) == [id |-> OidStr(admin._id), username |-> admin.username]

\* get_admins(); to_list(length=None) keeps every document
get_admins ==
    LET req == NoArgs
        admins == find(users, [role |-> "admin"])
    IN IF admins = <<>>
       THEN Failed("get_admins", req,
                   Raise(HTTP_404_NOT_FOUND, "No admins found."))
       ELSE /\ last' = Response("get_admins", req, TRUE,
                         Return([admins |->
                            [i \in 1..Len(admins) |-> AdminEntry(admins[i])]]))
            /\ UNCHANGED <<calls, users, assignments, nextOid, now>>

---------------------------------------------------------------------------
(* app/services/admin_service.py *)

\* register_admin(admin)
register_admin(username, password) ==
    LET req == [username |-> username, password |-> password]
        existing_admin == find_one(users, [username |-> username])
        new_admin == [username |-> username,
                      password |-> get_password_hash(password, FreshSalt),
                      role |-> "admin"]
    IN IF ~Falsy(existing_admin)
       THEN Failed("register_admin", req,
                   Raise(HTTP_400_BAD_REQUEST, "Username already taken"))
       ELSE /\ users' = insert_one(users, new_admin, nextOid)
            /\ nextOid' = nextOid + 1
            /\ last' = Response("register_admin", req, TRUE,
                         Return([id |-> OidStr(nextOid),
                                 message |-> "Admin registered successfully"]))
            /\ UNCHANGED <<calls, assignments, now>>

\* mutant: login_admin that looks the account up by username alone
login_admin_AnyRole(username, password) ==
    LET req == [username |-> username, password |-> password]
        found_admin == find_one(users, [username |-> username])
    IN IF Falsy(found_admin) \/ ~verify_password(password, found_admin.password)
       THEN Failed("login_admin", req,
                   Raise(HTTP_401_UNAUTHORIZED, "Invalid username or password"))
       ELSE /\ last' = Response("login_admin", req, TRUE,
                         Return(LoginBody(found_admin,
                            create_access_token([sub |-> found_admin.username],
                                 timedelta(LOGIN_EXPIRE_MINUTES), now))))
            /\ UNCHANGED <<calls, users, assignments, nextOid, now>>

\* login_admin(admin)
login_admin(username, password) ==
    LET req == [username |-> username, password |-> password]
        found_admin == find_one(users, [username |-> username, role |-> "admin"])
    IN IF Falsy(found_admin) \/ ~verify_password(password, found_admin.password)
       THEN Failed("login_admin", req,
                   Raise(HTTP_401_UNAUTHORIZED, "Invalid username or password"))
       ELSE LET access_token ==
                    create_access_token([sub |-> found_admin.username],
                                        timedelta(LOGIN_EXPIRE_MINUTES), now)
            IN /\ last' = Response("login_admin", req, TRUE,
                            Return(LoginBody(found_admin, access_token)))
               /\ UNCHANGED <<calls, users, assignments, nextOid, now>>

\* the optional ?admin=NAME query parameter left out
NoFilter == NoneStr

\* one entry of the assignment list
AssignmentEntry(a) ==
    [id |-> OidStr(a._id), userId |-> a.userId, task |-> a.task,
     admin |-> a.admin, status |-> a.status, timestamp |-> a.timestamp]

\* the documents get_assignments_for_admin reads for an admin caller;
\* `if admin:` is false for None and for the empty string
AssignmentsFor(current_user, admin) ==
    IF admin # NoFilter /\ admin # ""
    THEN to_list(find(assignments, [admin |-> admin]), LIST_LENGTH)
    ELSE to_list(find(assignments, [admin_id |-> current_user._id]), LIST_LENGTH)

\* get_assignments_for_admin(current_user, admin)
get_assignments_for_admin(current_user, admin) ==
    LET req == NoArgs
    IN IF ~(current_user.role = "admin")
       THEN Failed("get_assignments_for_admin", req,
                   Raise(HTTP_403_FORBIDDEN, "Not authorized to admin"))
       ELSE LET found == AssignmentsFor(current_user, admin)
            IN /\ last' = Response("get_assignments_for_admin", req, TRUE,
                            Return([assignments |->
                               [i \in 1..Len(found) |-> AssignmentEntry(found[i])]]))
               /\ UNCHANGED <<calls, users, assignments, nextOid, now>>

\* mutant: update_assignment_status that parses the identifier before it
\* checks the caller's role
update_assignment_status_ParseFirst(assignment_id, status, current_user) ==
    IF ~OidValid(assignment_id)
    THEN Failed("update_assignment_status", NoArgs,
                Raise(HTTP_400_BAD_REQUEST, "Invalid assignment ID."))
    ELSE IF ~(current_user.role = "admin")
    THEN Failed("update_assignment_status", NoArgs,
                Raise(HTTP_403_FORBIDDEN, "Not authorized to accept assignments."))
    ELSE \E object_id \in {ObjectId(assignment_id)} :
         LET query == [_id |-> object_id]
         IN IF matched_count(assignments, query) = 0
            THEN Failed("update_assignment_status", NoArgs,
                        Raise(HTTP_404_NOT_FOUND, "Assignment not found."))
            ELSE /\ assignments' =
                       update_one(assignments, query, "status", status)
                 /\ last' = Response("update_assignment_status", NoArgs, TRUE,
                              Return([message |->
                                 "Assignment status updated successfully"]))
                 /\ UNCHANGED <<calls, users, nextOid, now>>

\* update_assignment_status(assignment, current_user)
update_assignment_status(assignment_id, status, current_user) ==
    LET req == NoArgs
    IN IF ~(current_user.role = "admin")
       THEN Failed("update_assignment_status", req,
                   Raise(HTTP_403_FORBIDDEN, "Not authorized to accept assignments."))
       ELSE IF ~OidValid(assignment_id)
       THEN Failed("update_assignment_status", req,
                   Raise(HTTP_400_BAD_REQUEST, "Invalid assignment ID."))
       ELSE \E object_id \in {ObjectId(assignment_id)} :
            LET query == [_id |-> object_id]
            IN IF matched_count(assignments, query) = 0
               THEN Failed("update_assignment_status", req,
                           Raise(HTTP_404_NOT_FOUND, "Assignment not found."))
               ELSE /\ assignments' =
                          update_one(assignments, query, "status", status)
                    /\ last' = Response("update_assignment_status", req, TRUE,
                                 Return([message |->
                                    "Assignment status updated successfully"]))
                    /\ UNCHANGED <<calls, users, nextOid, now>>

---------------------------------------------------------------------------
(* app/routes/user_routes.py and app/routes/admin_routes.py.  The value a  *)
(* dependency hands to the route is bound once, by \E over a singleton.    *)

register_user_endpoint(username, password) ==
    register_user(username, password)

login_user_endpoint(username, password) ==
    login_user(username, password)

upload_assignment_endpoint(token, userId, task, admin) ==
    \E current_user \in {get_current_active_user(token, users, now)} :
       IF ~current_user.ok
       THEN Rejected("upload_assignment", NoArgs, current_user)
       ELSE upload_assignment(userId, task, admin, current_user.value)

get_admins_endpoint(token) ==
    \E current_user \in {get_current_active_user(token, users, now)} :
       IF ~current_user.ok
       THEN Rejected("get_admins", NoArgs, current_user)
       ELSE get_admins

register_admin_endpoint(username, password) ==
    register_admin(username, password)

login_admin_endpoint(username, password) ==
    login_admin(username, password)

get_assignments_endpoint(token, admin) ==
    \E current_user \in {get_current_active_user(token, users, now)} :
       IF ~current_user.ok
       THEN Rejected("get_assignments_for_admin", NoArgs, current_user)
       ELSE get_assignments_for_admin(current_user.value, admin)

\* mutant: the accept route passing a status outside the three
accept_assignment_endpoint_Approved(token, id) ==
    \E current_user \in {get_current_active_user(token, users, now)} :
       IF ~current_user.ok
       THEN Rejected("update_assignment_status", NoArgs, current_user)
       ELSE update_assignment_status(id, "approved", current_user.value)

accept_assignment_endpoint(token, id) ==
    \E current_user \in {get_current_active_user(token, users, now)} :
       IF ~current_user.ok
       THEN Rejected("update_assignment_status", NoArgs, current_user)
       ELSE update_assignment_status(id, "accepted", current_user.value)

reject_assignment_endpoint(token, id) ==
    \E current_user \in {get_current_active_user(token, users, now)} :
       IF ~current_user.ok
       THEN Rejected("update_assignment_status", NoArgs, current_user)
       ELSE update_assignment_status(id, "rejected", current_user.value)

---------------------------------------------------------------------------
(* The environment: the clock and the requests clients send *)

Tick ==
    /\ \E d \in TickMinutes : now + d <= MaxTime /\ now' = now + d
    /\ UNCHANGED <<calls, users, assignments, nextOid, last>>

\* token payloads clients present: a subject with the expiry of a login just
\* now, a subject with the expiry of a login half an hour ago, and a payload
\* that carries no subject
Payloads ==
    [sub : Usernames, exp : {now + LOGIN_EXPIRE_MINUTES}]
    \cup {[sub |-> "alice", exp |-> now], [exp |-> now + LOGIN_EXPIRE_MINUTES]}

\* tokens signed with the server's key
SignedTokens == {jwt_encode(p, SECRET_KEY) : p \in Payloads}

\* tokens that do not verify: signed with another key, a payload swapped
\* under a genuine signature, and a string that is no token
ForgedTokens ==
    {jwt_encode([sub |-> "alice", exp |-> now + LOGIN_EXPIRE_MINUTES], OTHER_KEY),
     [payload |-> [sub |-> "alice", exp |-> now + LOGIN_EXPIRE_MINUTES],
      sig |-> Sign([sub |-> "bob", exp |-> now + LOGIN_EXPIRE_MINUTES], SECRET_KEY)],
     GarbageToken}

BearerTokens == SignedTokens \cup ForgedTokens

\* strings that are no ObjectId: one character short, and a non-hex character
MalformedIds ==
    {SubSeq(OidStr(1), 1, OID_HEX_LEN - 1),
     [i \in 1..OID_HEX_LEN |-> IF i = 1 THEN "g" ELSE "0"]}

\* the {id} path parameter: the identifiers of the stored assignments, one
\* the store has not handed out, and the malformed strings
IdStrings ==
    {OidStr(assignments[i]._id) : i \in 1..Len(assignments)}
    \cup {OidStr(nextOid)} \cup MalformedIds

AdminFilters == Usernames \cup {NoFilter}

---------------------------------------------------------------------------
(* The specification *)

Init ==
    /\ users = <<>>
    /\ assignments = <<>>
    /\ nextOid = 1
    /\ now = 0
    /\ calls = <<>>
    /\ last = [op |-> "start", req |-> NoArgs, flow |-> FALSE,
               status |-> HTTP_200_OK, detail |-> "", body |-> PyNone]

\* the collections stay within the bounds of the model
WithinBounds ==
    /\ Len(users') <= MaxUsers
    /\ Len(assignments') <= MaxAssignments

Next ==
    \/ \E u \in Usernames, p \in Passwords :
          register_user_endpoint(u, p) /\ WithinBounds
    \/ \E u \in Usernames, p \in Passwords :
          register_admin_endpoint(u, p) /\ WithinBounds
    \/ \E u \in Usernames, p \in Passwords : login_user_endpoint(u, p)
    \/ \E u \in Usernames, p \in Passwords : login_admin_endpoint(u, p)
    \/ \E t \in BearerTokens, i \in UserIds, k \in Tasks, a \in Usernames :
          upload_assignment_endpoint(t, i, k, a) /\ WithinBounds
    \/ \E t \in BearerTokens : get_admins_endpoint(t)
    \/ \E t \in BearerTokens, a \in AdminFilters : get_assignments_endpoint(t, a)
    \/ \E t \in BearerTokens, i \in IdStrings : accept_assignment_endpoint(t, i)
    \/ \E t \in BearerTokens, i \in IdStrings : reject_assignment_endpoint(t, i)

Spec == Init /\ [][Next]_vars

---------------------------------------------------------------------------
(* The review of assignments by two registered admins *)

\* the document register_admin stores for a username and a password when
\* the store hands out the identifier oid
AdminDoc(username, password, oid) ==
    WithId([username |-> username,
            password |-> get_password_hash(password, oid),
            role |-> "admin"], oid)

\* the users collection after register_admin of alice and then of bob
TwoAdmins == <<AdminDoc("alice", "pw1", 1), AdminDoc("bob", "pw1", 2)>>

InitReview ==
    /\ users = TwoAdmins
    /\ assignments = <<>>
    /\ nextOid = 3
    /\ now = 0
    /\ calls = <<>>
    /\ last = [op |-> "register_admin",
               req |-> [username |-> "bob", password |-> "pw1"], flow |-> TRUE,
               status |-> HTTP_200_OK, detail |-> "",
               body |-> [id |-> OidStr(2),
                         message |-> "Admin registered successfully"]]

ReviewAssignments == MaxAssignments + 1

NextReview ==
    \/ \E t \in BearerTokens, i \in UserIds, k \in Tasks, a \in Usernames :
          /\ upload_assignment_endpoint(t, i, k, a)
          /\ Len(assignments') <= ReviewAssignments
    \/ \E t \in BearerTokens, a \in AdminFilters : get_assignments_endpoint(t, a)
    \/ \E t \in BearerTokens, i \in IdStrings : accept_assignment_endpoint(t, i)
    \/ \E t \in BearerTokens, i \in IdStrings : reject_assignment_endpoint(t, i)

SpecReview == InitReview /\ [][NextReview]_vars

---------------------------------------------------------------------------
(* Vocabulary of the properties *)

\* the error kinds of the specification's taxonomy, by HTTP status
ErrorKind(code) ==
    CASE code = 400 -> "BadRequest"
      [] code = 401 -> "Unauthorized"
      [] code = 403 -> "Forbidden"
      [] code = 404 -> "NotFound"
      [] code = 409 -> "Conflict"
      [] OTHER -> "None"

RegisterOps == {"register_user", "register_admin"}
LoginOps == {"login_user", "login_admin"}

\* the stored users of a name
UsersNamed(u) == {i \in 1..Len(users) : users[i].username = u}

\* the password a stored hash was made from is p
HashOf(doc, p) == doc.password.digest = p

\* no two stored users share a username
UsernamesUnique ==
    \A i, j \in 1..Len(users) :
        users[i].username = users[j].username => i = j

\* the token does not authenticate: it does not verify, is expired, carries
\* no subject, or its subject names no stored user
BadToken(t) ==
    \/ t \in ForgedTokens
    \/ t.payload.exp <= now
    \/ "sub" \notin DOMAIN t.payload
    \/ UsersNamed(t.payload.sub) = {}

\* the stored user an authenticating token names
CallerOf(t) == users[CHOOSE i \in UsersNamed(t.payload.sub) : TRUE]

\* the token authenticates an active account
GoodToken(t) == ~BadToken(t) /\ Get(CallerOf(t), "is_active", TRUE)

\* a request to one of the five protected routes with bearer token t
ProtectedRequest(t) ==
    \/ \E i \in UserIds, k \in Tasks, a \in Usernames :
          upload_assignment_endpoint(t, i, k, a)
    \/ get_admins_endpoint(t)
    \/ \E a \in AdminFilters : get_assignments_endpoint(t, a)
    \/ \E i \in IdStrings : accept_assignment_endpoint(t, i)
    \/ \E i \in IdStrings : reject_assignment_endpoint(t, i)

---------------------------------------------------------------------------
(* C1: registration of a taken username *)

\* C1 as stated: a register call (register_user or register_admin) for a
\* username that is already stored fails with the Conflict kind.
C1_DuplicateIsConflict ==
    (last.op \in RegisterOps /\ last.status # HTTP_200_OK)
        => ErrorKind(last.status) = "Conflict"

\* a register call through either flow
RegisterCall(u, p) ==
    register_user_endpoint(u, p) \/ register_admin_endpoint(u, p)

\* what a register call must have done, by whether the name was stored
C1_RegisterPost(u, p) ==
    IF UsersNamed(u) # {}
    THEN /\ last'.status = HTTP_400_BAD_REQUEST
         /\ last'.detail = "Username already taken"
         /\ users' = users
    ELSE /\ last'.status = HTTP_200_OK
         /\ Len(users') = Len(users) + 1
         /\ SubSeq(users', 1, Len(users)) = users
         /\ users'[Len(users')].username = u

\* C1 (amended): a register call for a username that is already stored fails
\* with HTTP 400 "Username already taken" (the BadRequest status, not a
\* Conflict one) and inserts nothing; a register call for a new username
\* appends exactly one user of that name; so the users collection never holds
\* two users of one username.
C1_OneUserPerUsername ==
    /\ UsernamesUnique
    /\ \A u \in Usernames, p \in Passwords :
          ~ENABLED (RegisterCall(u, p) /\ ~C1_RegisterPost(u, p))

\* a register call for a stored username was just refused
C1_Witness ==
    /\ last.op \in RegisterOps
    /\ last.status = HTTP_400_BAD_REQUEST
    /\ UsersNamed(last.req.username) # {}
    /\ Len(users) = 2

---------------------------------------------------------------------------
(* C2: login after register *)

\* the stored users never shrink or change
UsersKept == Len(users') >= Len(users) /\ SubSeq(users', 1, Len(users)) = users

\* a successful register stores the hash of the password it was given
C2_RegisterPost(u, p) ==
    last'.status = HTTP_200_OK =>
        \E i \in 1..Len(users') :
            users'[i].username = u /\ HashOf(users'[i], p)

\* the response is a token whose decoded subject is u
TokenFor(u) ==
    /\ last'.status = HTTP_200_OK
    /\ decode_access_token(last'.body.access_token, now) # PyNone
    /\ decode_access_token(last'.body.access_token, now).sub = u

\* the response is 401 and carries no token
Unauthorized401 ==
    /\ last'.status = HTTP_401_UNAUTHORIZED
    /\ last'.body = PyNone

\* what login_user must have done with a username and a password
C2_LoginUserPost(u, p) ==
    IF \E i \in UsersNamed(u) : HashOf(users[i], p)
    THEN TokenFor(u) ELSE Unauthorized401

\* what login_admin must have done with a username and a password
C2_LoginAdminPost(u, p) ==
    IF \E i \in UsersNamed(u) : HashOf(users[i], p) /\ users[i].role = "admin"
    THEN TokenFor(u) ELSE Unauthorized401

\* C2: a successful register(u, p) stores u with the hash of p and no step
\* removes or changes a stored user, so in every later state login(u, p) in
\* the same flow succeeds and returns a token whose decoded sub is u; login
\* with an unknown username or with another password than the registered one
\* fails with 401 and returns no token.
C2_LoginAfterRegister ==
    /\ [][UsersKept]_vars
    /\ [](\A u \in Usernames, p \in Passwords :
          /\ ~ENABLED (RegisterCall(u, p) /\ ~C2_RegisterPost(u, p))
          /\ ~ENABLED (login_user_endpoint(u, p) /\ ~C2_LoginUserPost(u, p))
          /\ ~ENABLED (login_admin_endpoint(u, p) /\ ~C2_LoginAdminPost(u, p)))

\* a login with the registered credentials just returned a token for them
C2_Witness ==
    /\ last.op \in LoginOps
    /\ last.status = HTTP_200_OK
    /\ \E i \in UsersNamed(last.req.username) :
          HashOf(users[i], last.req.password)
    /\ decode_access_token(last.body.access_token, now).sub = last.req.username

---------------------------------------------------------------------------
(* C3: a token that does not authenticate *)

\* the request was refused with 401 by the dependency and wrote nothing
C3_RefusedPost ==
    /\ last'.status = HTTP_401_UNAUTHORIZED
    /\ ~last'.flow
    /\ users' = users
    /\ assignments' = assignments

\* C3: every protected operation (upload assignment, list admins, list
\* assignments, accept, reject) called with a bearer token that fails to
\* decode, is expired, carries no sub claim, or whose sub names no stored
\* user fails with 401 before the service function runs, and leaves the
\* users and assignments collections unchanged.
C3_BadTokenRefused ==
    \A t \in BearerTokens :
        BadToken(t) => ~ENABLED (ProtectedRequest(t) /\ ~C3_RefusedPost)

\* an accept or reject was just refused with 401 while an assignment it
\* could have changed is stored, and an expired token of a stored user is
\* among the tokens that are refused here
C3_Witness ==
    /\ last.op = "update_assignment_status"
    /\ last.status = HTTP_401_UNAUTHORIZED
    /\ ~last.flow
    /\ Len(assignments) >= 1
    /\ \E t \in SignedTokens :
          /\ "sub" \in DOMAIN t.payload
          /\ UsersNamed(t.payload.sub) # {}
          /\ t.payload.exp <= now
          /\ ENABLED (ProtectedRequest(t) /\ C3_RefusedPost)

---------------------------------------------------------------------------
(* C4: admin login is for admin accounts *)

\* u is stored with role "user" and the hash of p
UserRoleAccount(u, p) ==
    \E i \in UsersNamed(u) : users[i].role = "user" /\ HashOf(users[i], p)

\* C4: for every account registered through the user flow (role "user"),
\* login_admin with that account's correct username and password fails with
\* 401 and issues no token.
C4_AdminLoginNeedsAdminRole ==
    \A u \in Usernames, p \in Passwords :
        UserRoleAccount(u, p) =>
            ~ENABLED (login_admin_endpoint(u, p) /\ ~Unauthorized401)

\* login_admin was just refused for the correct credentials of a user account
C4_Witness ==
    /\ last.op = "login_admin"
    /\ last.status = HTTP_401_UNAUTHORIZED
    /\ last.body = PyNone
    /\ UserRoleAccount(last.req.username, last.req.password)

---------------------------------------------------------------------------
(* C5: an assignment names a stored admin *)

\* a is the username of a stored user whose role is "admin"
IsAdminName(a) == \E i \in UsersNamed(a) : users[i].role = "admin"

\* every stored assignment's admin_id is the id of a stored admin whose
\* username is the assignment's admin field
AssignmentsNameAdmins ==
    \A k \in 1..Len(assignments) :
        \E i \in 1..Len(users) :
            /\ users[i]._id = assignments[k].admin_id
            /\ users[i].role = "admin"
            /\ users[i].username = assignments[k].admin

\* an upload naming no stored admin inserted nothing, and failed with 404
\* when the caller was authenticated
C5_UploadPost(t) ==
    /\ assignments' = assignments
    /\ GoodToken(t) => (last'.status = HTTP_404_NOT_FOUND /\ last'.flow)

\* C5: uploadAssignment whose admin username matches no stored user with
\* role "admin" (no such user, or a user with role "user") fails with 404 and
\* inserts no assignment; in every reachable state each stored assignment's
\* admin_id is the id of a stored user whose role is "admin" and whose
\* username equals the assignment's admin field.
C5_AssignmentAdminExists ==
    /\ AssignmentsNameAdmins
    /\ \A t \in BearerTokens, a \in Usernames :
          ~IsAdminName(a) =>
              ~ENABLED ((\E i \in UserIds, k \in Tasks :
                            upload_assignment_endpoint(t, i, k, a))
                        /\ ~C5_UploadPost(t))

\* an upload was just refused with 404 while a user-role account, which is
\* no admin, and an assignment of a stored admin exist
C5_Witness ==
    /\ last.op = "upload_assignment"
    /\ last.status = HTTP_404_NOT_FOUND
    /\ \E i \in 1..Len(users) : users[i].role = "user"
    /\ Len(assignments) >= 1
    /\ \E t \in BearerTokens, a \in Usernames :
          /\ GoodToken(t)
          /\ UsersNamed(a) # {} /\ ~IsAdminName(a)
          /\ ENABLED ((\E i \in UserIds, k \in Tasks :
                          upload_assignment_endpoint(t, i, k, a))
                      /\ last'.status = HTTP_404_NOT_FOUND)

---------------------------------------------------------------------------
(* C8: the order of the checks of setAssignmentStatus *)

\* an accept or a reject of the assignment with identifier id
StatusCall(t, id) ==
    accept_assignment_endpoint(t, id) \/ reject_assignment_endpoint(t, id)

\* the identifier is that of a stored assignment
NamesAssignment(id) ==
    \E k \in 1..Len(assignments) : OidStr(assignments[k]._id) = id

\* the failure the call must end in, by the first check that fails
C8_FailurePost(t, id) ==
    IF CallerOf(t).role # "admin"
    THEN last'.status = HTTP_403_FORBIDDEN /\ assignments' = assignments
    ELSE IF id \in MalformedIds
    THEN last'.status = HTTP_400_BAD_REQUEST /\ assignments' = assignments
    ELSE IF ~NamesAssignment(id)
    THEN last'.status = HTTP_404_NOT_FOUND /\ assignments' = assignments
    ELSE TRUE

\* C8: setAssignmentStatus classifies its failure by the first failing check
\* in the order role, identifier, existence: a caller whose role is not
\* "admin" gets 403 (even with a malformed or unknown id), otherwise a
\* malformed id gets 400, otherwise a well-formed id matching no assignment
\* gets 404; in all three cases no assignment changes.
C8_FailureOrder ==
    \A t \in BearerTokens, id \in IdStrings :
        GoodToken(t) => ~ENABLED (StatusCall(t, id) /\ ~C8_FailurePost(t, id))

\* a status call was just refused with 403, and here a non-admin caller gets
\* 403 for a malformed id while an admin caller gets 400 for it
C8_Witness ==
    /\ last.op = "update_assignment_status"
    /\ last.status = HTTP_403_FORBIDDEN
    /\ Len(assignments) >= 1
    /\ \E t1, t2 \in BearerTokens, id \in MalformedIds :
          /\ GoodToken(t1) /\ CallerOf(t1).role = "user"
          /\ GoodToken(t2) /\ CallerOf(t2).role = "admin"
          /\ ENABLED (StatusCall(t1, id) /\ last'.status = HTTP_403_FORBIDDEN)
          /\ ENABLED (StatusCall(t2, id) /\ last'.status = HTTP_400_BAD_REQUEST)

---------------------------------------------------------------------------
(* Many uploads for one admin *)

\* one more assignment than one listing returns
BulkAssignments == LIST_LENGTH + 1

\* the admins the uploads of this specification name: bob at most once, as
\* the first upload, alice from then on
BulkAdmins == IF assignments = <<>> THEN Usernames ELSE {"alice"}

InitBulk ==
    /\ users = TwoAdmins
    /\ assignments = <<>>
    /\ nextOid = 3
    /\ now = 0
    /\ calls = <<>>
    /\ last = [op |-> "register_admin",
               req |-> [username |-> "bob", password |-> "pw1"], flow |-> TRUE,
               status |-> HTTP_200_OK, detail |-> "",
               body |-> [id |-> OidStr(2),
                         message |-> "Admin registered successfully"]]

\* the one account that uploads in this specification: bob, freshly logged in
BulkUploaders ==
    {jwt_encode([sub |-> "bob", exp |-> now + LOGIN_EXPIRE_MINUTES], SECRET_KEY)}

NextBulk ==
    \/ \E t \in BulkUploaders, i \in UserIds, k \in Tasks, a \in BulkAdmins :
          /\ upload_assignment_endpoint(t, i, k, a)
          /\ Len(assignments') <= BulkAssignments
    \/ \E t \in SignedTokens : get_assignments_endpoint(t, NoFilter)

SpecBulk == InitBulk /\ [][NextBulk]_vars

---------------------------------------------------------------------------
(* Tokens over time: create_access_token, the clock, decode_access_token *)

\* the expires_delta arguments: left out, zero, half an hour, an hour, and a
\* negative one
TokenLifetimes ==
    {PyNone, timedelta(0), timedelta(30), timedelta(60), timedelta(0 - 30)}

\* a call create_access_token({"sub": u}, d); the request records the
\* arguments and the time of the call
create_access_token_call(u, d) ==
    /\ last' = Response("create_access_token",
                        [sub |-> u, expires_delta |-> d, created |-> now], TRUE,
                        Return(create_access_token([sub |-> u], d, now)))
    /\ UNCHANGED <<calls, users, assignments, nextOid, now>>

\* a call decode_access_token(token) on the token created last; the body
\* records the time of the call with what it returned
decode_access_token_call ==
    /\ last.op \in {"create_access_token", "decode_access_token"}
    /\ \E token \in {IF last.op = "create_access_token"
                     THEN last.body ELSE last.body.token} :
          last' = Response("decode_access_token", last.req, TRUE,
                           Return([token |-> token, at |-> now,
                                   payload |-> decode_access_token(token, now)]))
    /\ UNCHANGED <<calls, users, assignments, nextOid, now>>

NextToken ==
    \/ \E u \in Usernames, d \in TokenLifetimes : create_access_token_call(u, d)
    \/ decode_access_token_call
    \/ Tick

SpecToken == Init /\ [][NextToken]_vars

---------------------------------------------------------------------------
(* A users collection whose documents carry the is_active field *)

\* the document register_user stores for a username and a password when the
\* store hands out the identifier oid
UserDoc(username, password, oid) ==
    WithId([username |-> username,
            password |-> get_password_hash(password, oid),
            role |-> "user"], oid)

\* the is_active field of a stored user: true, false, or not stored
ActiveFlags == {"true", "false", "absent"}

\* doc with the is_active field the flag tells
WithActive(doc, flag) ==
    IF flag = "absent" THEN doc
    ELSE [k \in DOMAIN doc \cup {"is_active"} |->
            IF k = "is_active" THEN flag = "true" ELSE doc[k]]

\* the admin alice and the user bob, registered, with every is_active field
\* the User model allows on each
SeededUsers ==
    {<<WithActive(AdminDoc("alice", "pw1", 1), a),
       WithActive(UserDoc("bob", "pw1", 2), b)>> : a \in ActiveFlags, b \in ActiveFlags}

InitSeeded ==
    /\ users \in SeededUsers
    /\ assignments = <<>>
    /\ nextOid = 3
    /\ now = 0
    /\ calls = <<>>
    /\ last = [op |-> "register_user",
               req |-> [username |-> "bob", password |-> "pw1"], flow |-> TRUE,
               status |-> HTTP_200_OK, detail |-> "",
               body |-> [id |-> OidStr(2),
                         message |-> "User registered successfully"]]

SpecSeeded == InitSeeded /\ [][Next]_vars

---------------------------------------------------------------------------
(* C7: what a status change does *)

\* the positions of the stored assignments with identifier id
AssignmentsWithId(id) ==
    {k \in 1..Len(assignments) : OidStr(assignments[k]._id) = id}

\* the call succeeded and set the status of assignment k to s and nothing else
C7_StatusPost(k, s) ==
    /\ last'.status = HTTP_200_OK
    /\ assignments' = [assignments EXCEPT ![k].status = s]
    /\ users' = users

\* every entry of a returned list shows the stored status of its assignment
C7_ListPost ==
    last'.status = HTTP_200_OK =>
        \A n \in 1..Len(last'.body.assignments) :
            \E k \in AssignmentsWithId(last'.body.assignments[n].id) :
                last'.body.assignments[n].status = assignments[k].status

\* C7: for every caller with role "admin" (the admin the assignment names or
\* another one) and every stored assignment, accept and reject succeed
\* whatever the prior status, set that assignment's status to "accepted" or
\* "rejected" and change nothing else (its other fields, the other
\* assignments and the users stay as they were); the lists returned
\* afterwards show the stored status.
C7_StatusChange ==
    \A t \in BearerTokens :
        (GoodToken(t) /\ CallerOf(t).role = "admin") =>
            /\ \A id \in IdStrings : \A k \in AssignmentsWithId(id) :
                  /\ ~ENABLED (accept_assignment_endpoint(t, id)
                               /\ ~C7_StatusPost(k, "accepted"))
                  /\ ~ENABLED (reject_assignment_endpoint(t, id)
                               /\ ~C7_StatusPost(k, "rejected"))
            /\ \A f \in AdminFilters :
                  ~ENABLED (get_assignments_endpoint(t, f) /\ ~C7_ListPost)

\* a status change just succeeded, two assignments are stored, one accepted
\* and one not, and an admin the accepted one does not name can reject it
C7_Witness ==
    /\ last.op = "update_assignment_status"
    /\ last.status = HTTP_200_OK
    /\ \E k, m \in 1..Len(assignments) :
          /\ k # m
          /\ assignments[k].status = "accepted"
          /\ assignments[m].status # "accepted"
          /\ \E t \in BearerTokens :
                /\ GoodToken(t)
                /\ CallerOf(t).role = "admin"
                /\ CallerOf(t)._id # assignments[k].admin_id
                /\ ENABLED (reject_assignment_endpoint(t, OidStr(assignments[k]._id))
                            /\ C7_StatusPost(k, "rejected"))

---------------------------------------------------------------------------
(* C6: an uploaded assignment and the lists of the admins *)

\* the call succeeded and appended exactly one assignment, pending and
\* naming the admin account called adminName, to the stored ones
C6_UploadPost(adminName) ==
    last'.status = HTTP_200_OK =>
        /\ Len(assignments') = Len(assignments) + 1
        /\ SubSeq(assignments', 1, Len(assignments)) = assignments
        /\ \E a \in {assignments'[Len(assignments')]} :
              /\ a.status = "pending"
              /\ a.admin = adminName
              /\ \E i \in UsersNamed(adminName) :
                    users[i].role = "admin" /\ a.admin_id = users[i]._id

\* the identifiers in the body of the list just returned
ListedIds == {last'.body.assignments[n].id : n \in 1..Len(last'.body.assignments)}

\* the list returned to caller holds every stored assignment of the caller's
\* account and no assignment of another account
C6_ListPost(caller) ==
    /\ last'.status = HTTP_200_OK
    /\ \A k \in 1..Len(assignments) :
          (assignments[k].admin_id = caller._id)
              <=> (OidStr(assignments[k]._id) \in ListedIds)

\* C6: a successful upload naming admin A creates exactly one assignment with
\* status "pending"; from then on the unfiltered list of A's account returns
\* that assignment, and the unfiltered list of every other admin account
\* never returns it.
C6_UploadListed ==
    \A t \in SignedTokens :
        GoodToken(t) =>
            /\ \A i \in UserIds, k \in Tasks, a \in Usernames :
                  ~ENABLED (upload_assignment_endpoint(t, i, k, a)
                            /\ ~C6_UploadPost(a))
            /\ (CallerOf(t).role = "admin") =>
                  ~ENABLED (get_assignments_endpoint(t, NoFilter)
                            /\ ~C6_ListPost(CallerOf(t)))

---------------------------------------------------------------------------
(* C9: expired tokens *)

\* the token decoded last was created with a zero lifetime, or with a
\* lifetime that had elapsed when it was decoded
C9_Elapsed ==
    /\ last.req.expires_delta # PyNone
    /\ \/ last.req.expires_delta.minutes = 0
       \/ last.req.created + last.req.expires_delta.minutes <= last.body.at

\* C9: a token created with ttl = 0, or with any lifetime that has already
\* elapsed at decode time, is rejected by decode_access_token (which returns
\* None) at every decode time at or after its creation.
C9_ExpiredRejected ==
    (last.op = "decode_access_token" /\ C9_Elapsed) => last.body.payload = PyNone

\* the part of C9 the code keeps: a non-zero lifetime that has elapsed
C9_NonZeroElapsedRejected ==
    (/\ last.op = "decode_access_token"
     /\ C9_Elapsed
     /\ last.req.expires_delta.minutes # 0) => last.body.payload = PyNone

---------------------------------------------------------------------------
(* C10: inactive accounts *)

\* the token resolves to a stored user
Resolves(t) == ~BadToken(t)

\* the stored user the token resolves to has is_active = false
Inactive(t) == ~Get(CallerOf(t), "is_active", TRUE)

\* C10 as stated: the rejection of an inactive caller is of the Forbidden
\* kind.
C10_InactiveIsForbidden ==
    last.detail = "Inactive user" => ErrorKind(last.status) = "Forbidden"

\* the request was refused with 400 "Inactive user" by the dependency and
\* wrote nothing
C10_RefusedPost ==
    /\ last'.status = HTTP_400_BAD_REQUEST
    /\ last'.detail = "Inactive user"
    /\ ~last'.flow
    /\ users' = users
    /\ assignments' = assignments

\* C10 (amended): on every protected route, a caller whose token resolves to
\* a stored user with is_active = false is rejected with HTTP 400 "Inactive
\* user" (the BadRequest status, not a Forbidden one) and the service
\* function is not executed; a caller whose user document has is_active true
\* or absent passes the check, so the service function is executed.
C10_InactiveRefused ==
    \A t \in BearerTokens :
        Resolves(t) =>
            IF Inactive(t)
            THEN ~ENABLED (ProtectedRequest(t) /\ ~C10_RefusedPost)
            ELSE ~ENABLED (ProtectedRequest(t) /\ ~last'.flow)

\* an upload was just refused as inactive, an assignment is stored, and of
\* the two stored accounts one is inactive and refused here while the other
\* has no is_active field and gets through
C10_Witness ==
    /\ last.op = "upload_assignment"
    /\ last.detail = "Inactive user"
    /\ ~last.flow
    /\ Len(assignments) >= 1
    /\ \E t, v \in SignedTokens :
          /\ Resolves(t) /\ Inactive(t)
          /\ ENABLED (ProtectedRequest(t) /\ C10_RefusedPost)
          /\ Resolves(v) /\ "is_active" \notin DOMAIN CallerOf(v)
          /\ ENABLED (ProtectedRequest(v) /\ last'.flow)

---------------------------------------------------------------------------
(* C11: the status of a stored assignment *)

\* the three statuses of the specification
Statuses == {"pending", "accepted", "rejected"}

\* every stored assignment has one of the three statuses
C11_StatusInEnum ==
    \A k \in 1..Len(assignments) : assignments[k].status \in Statuses

\* one step of the program: stored assignments stay, a new one is pending,
\* and a status changes only in a successful accept or reject, to "accepted"
\* or "rejected"
C11_Step ==
    /\ Len(assignments') >= Len(assignments)
    /\ \A k \in 1..Len(assignments') :
          IF k > Len(assignments)
          THEN assignments'[k].status = "pending"
          ELSE assignments'[k].status # assignments[k].status =>
                  /\ last'.op = "update_assignment_status"
                  /\ last'.status = HTTP_200_OK
                  /\ assignments'[k].status \in {"accepted", "rejected"}

\* the token is not that of an active admin account
NotAdminCaller(t) == ~GoodToken(t) \/ CallerOf(t).role # "admin"

\* C11: in every state reachable through the public endpoints (register,
\* login, upload, list, accept, reject, in any order and by any callers),
\* every stored assignment's status is one of "pending", "accepted",
\* "rejected"; it is "pending" at creation and leaves "pending" only through
\* a successful accept or reject, and no accept or reject by a caller who is
\* not an admin changes a stored assignment.
C11_StatusLifecycle ==
    /\ []C11_StatusInEnum
    /\ [][C11_Step]_vars
    /\ [](\A t \in BearerTokens : NotAdminCaller(t) =>
             \A id \in IdStrings :
                ~ENABLED (StatusCall(t, id) /\ assignments' # assignments))

\* an accept just succeeded on a stored assignment, which is now "accepted",
\* while an active caller with role "user" is stored whose reject of that
\* assignment is refused and leaves it as it is
C11_Witness ==
    /\ last.op = "update_assignment_status"
    /\ last.status = HTTP_200_OK
    /\ \E k \in 1..Len(assignments) :
          /\ assignments[k].status = "accepted"
          /\ \E t \in SignedTokens :
                /\ GoodToken(t)
                /\ CallerOf(t).role = "user"
                /\ ENABLED (reject_assignment_endpoint(t, OidStr(assignments[k]._id))
                            /\ last'.status = HTTP_403_FORBIDDEN
                            /\ assignments' = assignments)

---------------------------------------------------------------------------
(* Concurrent registration: register_user and register_admin suspended at
   their storage calls *)

\* the register calls in flight at once
MaxCalls == 2

RegisterFlows == {"register_user", "register_admin"}

\* the password every call of this specification sends
RacePasswords == {"pw1"}

\* the role a flow stores and the message it returns
RoleOf(flow) == IF flow = "register_user" THEN "user" ELSE "admin"
MessageOf(flow) ==
    IF flow = "register_user"
    THEN "User registered successfully" ELSE "Admin registered successfully"

\* a client sends a register request: the handler is entered and is about
\* to await find_one
register_start(flow, username, password) ==
    /\ Len(calls) < MaxCalls
    /\ calls' = Append(calls, [flow |-> flow, username |-> username,
                               password |-> password, pc |-> "find_one",
                               existing_user |-> PyNone, response |-> PyNone])
    /\ UNCHANGED <<users, assignments, nextOid, now, last>>

\* call i resumes from `await users_collection.find_one(...)`: it raises when
\* a user was found and goes on to the insert otherwise
register_find_one(i) ==
    /\ calls[i].pc = "find_one"
    /\ \E existing_user \in {find_one(users, [username |-> calls[i].username])} :
          IF ~Falsy(existing_user)
          THEN \E r \in {Raise(HTTP_400_BAD_REQUEST, "Username already taken")} :
                  /\ calls' = [calls EXCEPT ![i].pc = "done",
                                            ![i].existing_user = existing_user,
                                            ![i].response = r]
                  /\ last' = Response(calls[i].flow,
                                      [username |-> calls[i].username,
                                       password |-> calls[i].password], TRUE, r)
          ELSE /\ calls' = [calls EXCEPT ![i].pc = "insert_one"]
               /\ last' = last
    /\ UNCHANGED <<users, assignments, nextOid, now>>

\* mutant: an insert that a unique index on username refuses
register_insert_one_Unique(i) ==
    /\ calls[i].pc = "insert_one"
    /\ \E r \in {Raise(HTTP_400_BAD_REQUEST, "Username already taken")} :
          /\ calls' = [calls EXCEPT ![i].pc = "done", ![i].response = r]
          /\ last' = Response(calls[i].flow,
                              [username |-> calls[i].username,
                               password |-> calls[i].password], TRUE, r)
    /\ users' = IF find_one(users, [username |-> calls[i].username]) = PyNone
                THEN insert_one(users, [username |-> calls[i].username,
                                        password |-> get_password_hash(calls[i].password, FreshSalt),
                                        role |-> RoleOf(calls[i].flow)], nextOid)
                ELSE users
    /\ nextOid' = nextOid + 1
    /\ UNCHANGED <<assignments, now>>

\* call i builds its document and runs `await users_collection.insert_one(...)`,
\* then returns
register_insert_one(i) ==
    /\ calls[i].pc = "insert_one"
    /\ \E r \in {Return([id |-> OidStr(nextOid),
                         message |-> MessageOf(calls[i].flow)])} :
          /\ calls' = [calls EXCEPT ![i].pc = "done", ![i].response = r]
          /\ last' = Response(calls[i].flow,
                              [username |-> calls[i].username,
                               password |-> calls[i].password], TRUE, r)
    /\ users' = insert_one(users, [username |-> calls[i].username,
                                   password |-> get_password_hash(calls[i].password, FreshSalt),
                                   role |-> RoleOf(calls[i].flow)], nextOid)
    /\ nextOid' = nextOid + 1
    /\ UNCHANGED <<assignments, now>>

NextRace ==
    \/ \E f \in RegisterFlows, u \in Usernames, p \in RacePasswords :
          register_start(f, u, p)
    \/ \E i \in 1..Len(calls) : register_find_one(i)
    \/ \E i \in 1..Len(calls) : register_insert_one(i)

SpecRace == Init /\ [][NextRace]_vars

---------------------------------------------------------------------------
(* C12: two concurrent registrations of one username *)

\* call i has returned successfully and the user it was told of is stored
\* under its name with its flow's role
Registered(i) ==
    /\ calls[i].pc = "done"
    /\ calls[i].response.status = HTTP_200_OK
    /\ \E k \in UsersNamed(calls[i].username) :
          /\ OidStr(users[k]._id) = calls[i].response.value.id
          /\ users[k].role = RoleOf(calls[i].flow)

\* the insert of call i succeeded and appended one user
C12_InsertPost(i) ==
    /\ calls'[i].response.status = HTTP_200_OK
    /\ Len(users') = Len(users) + 1
    /\ SubSeq(users', 1, Len(users)) = users
    /\ users'[Len(users')].username = calls[i].username

\* C12: when two register calls for the same new username run concurrently
\* and may be suspended at each storage call, there is an interleaving in
\* which both calls succeed and the users collection ends with two users
\* sharing that username (with different roles when one call is
\* register_user and the other register_admin): a call that found no user at
\* its find_one is not stopped at its insert_one by what was inserted since,
\* so whenever two calls of one username have both passed the check and
\* returned, both have succeeded and each one's user is stored.
C12_BothRegister ==
    /\ \A i \in 1..Len(calls) :
          calls[i].pc = "insert_one" =>
              /\ ENABLED register_insert_one(i)
              /\ ~ENABLED (register_insert_one(i) /\ ~C12_InsertPost(i))
    /\ \A i, j \in 1..Len(calls) :
          (/\ i # j
           /\ calls[i].username = calls[j].username
           /\ calls[i].pc = "done" /\ calls[j].pc = "done"
           /\ calls[i].existing_user = PyNone
           /\ calls[j].existing_user = PyNone)
              => /\ Registered(i) /\ Registered(j)
                 /\ Cardinality(UsersNamed(calls[i].username)) >= 2

\* a register_user call and a register_admin call for "alice" have both
\* returned 200 and the collection holds two users named alice, one with role
\* "user" and one with role "admin"
C12_Witness ==
    \E i, j \in 1..Len(calls) :
        /\ calls[i].flow = "register_user" /\ calls[j].flow = "register_admin"
        /\ calls[i].username = "alice" /\ calls[j].username = "alice"
        /\ Registered(i) /\ Registered(j)
        /\ \E a, b \in UsersNamed("alice") :
              a # b /\ users[a].role = "user" /\ users[b].role = "admin"
        /\ ~UsernamesUnique

====
